---- MODULE Spec2Model ----
(***************************************************************************)
(* The force-atlas layout of string_network/visualizations.py              *)
(* (create_force_atlas_visualization): seeding, the 100-step solver loop   *)
(* and the rescaling that follows it; create_network of                    *)
(* network_analysis.py; the spread-out, non-radial, hierarchical, radial   *)
(* and functional-group layouts and the edge-property loops of the         *)
(* drawing functions.  Each function has its own specification.            *)
(*                                                                         *)
(* Numbers.  The code computes in floating point; the model computes in    *)
(* fixed point with truncation toward zero:                                *)
(*   coordinates, distances, displacements : 1/1000     (Milli)            *)
(*   forces and force coefficients         : 1/10000    (ForceUnit)        *)
(*   temperature                           : 1/1000000  (Micro)            *)
(* A coordinate that the code turns into nan is recorded in the set `nan`. *)
(***************************************************************************)
EXTENDS Integers, Sequences, FiniteSets, TLC

(* ---------------------------------------------------------------- units *)
Milli == 10^3
ForceUnit == 10^4
Micro == 10^6
Percent == 10^2
MaxInt == (2^30 - 1) * 2 + 1
NormLimit == 2^15 - 1

(* ------------------------------------------------------ program constants *)
repulsion == 2000
attraction == 500
initial_temperature == 500000
cooling_factor == 95
min_distance == 10
Iterations == 100
target_span == 5000
convergence_threshold == 10

(* ----------------------------------------------------------- model bounds *)
MaxNodes == 3
MaxEdges == 2
MaxRecords == 3
MaxOthers == 5
Precision == 8

Anchor == "INSR"
Names == <<"INSR", "A", "B", "C">>

(* ------------------------------------------------------------ arithmetic *)
Abs(a) == IF a < 0 THEN 0 - a ELSE a
Max(a, b) == IF a >= b THEN a ELSE b
Min(a, b) == IF a <= b THEN a ELSE b

\* a / b truncated toward zero, b > 0
SDiv(a, b) == IF a >= 0 THEN a \div b ELSE 0 - ((0 - a) \div b)

\* a * n / d truncated toward zero for n, d > 0, halving a and d while the
\* product would leave the machine range
RECURSIVE MulDiv(_, _, _)
MulDiv(a, n, d) ==
  IF Abs(a) <= MaxInt \div n
    THEN SDiv(a * n, d)
    ELSE MulDiv(SDiv(a, 2), n, Max(1, d \div 2))

\* the largest r in lo..hi with r * r <= n
RECURSIVE SqrtIn(_, _, _)
SqrtIn(n, lo, hi) ==
  IF lo >= hi
    THEN lo
    ELSE LET mid == (lo + hi + 1) \div 2
         IN IF mid * mid <= n THEN SqrtIn(n, mid, hi) ELSE SqrtIn(n, lo, mid - 1)

ISqrt(n) == SqrtIn(n, 0, 46340)

VAdd(a, b) == <<a[1] + b[1], a[2] + b[2]>>
VSub(a, b) == <<a[1] - b[1], a[2] - b[2]>>
VNeg(a) == <<0 - a[1], 0 - a[2]>>
Zero == <<0, 0>>

\* np.linalg.norm of a 2-vector
RECURSIVE Norm(_)
Norm(v) ==
  IF Abs(v[1]) > NormLimit \/ Abs(v[2]) > NormLimit
    THEN 16 * Norm(<<SDiv(v[1], 16), SDiv(v[2], 16)>>)
    ELSE ISqrt(v[1] * v[1] + v[2] * v[2])

(* ------------------------------------------------------------- the graph *)
\* G.nodes() is the sequence `nodes`; G.edges() is the set `edges` of pairs
NodeSet(ns) == {ns[i] : i \in 1..Len(ns)}

\* a layout that pins nothing
PinnedNone(node) == FALSE

\* the node the layout pins: every test `== "INSR"` of the function
Pinned(node) == node = Anchor

(* ------------------------------------------------------- the force model *)
\* delta * force / distance, force in ForceUnit, the result in Milli
Along(delta, force, distance) ==
  <<MulDiv(delta[1], force, distance * (ForceUnit \div Milli)),
    MulDiv(delta[2], force, distance * (ForceUnit \div Milli))>>

\* a repulsion of magnitude repulsion / distance instead of repulsion / distance^2
RepulsionInverse(p, node1, node2) ==
  LET delta == VSub(p[node1], p[node2])
      distance == Max(min_distance, Norm(delta))
      force == (repulsion * Milli) \div distance
  IN Along(delta, force, distance)

\* what node2 adds to displacement[node1]
RepulsionFrom(p, node1, node2) ==
  LET delta == VSub(p[node1], p[node2])
      distance == Max(min_distance, Norm(delta))
      force == (repulsion * Micro) \div (distance * distance)
  IN Along(delta, force, distance)

\* the inner loop without the test that skips the anchor as node2
RECURSIVE RepulsionAll(_, _, _, _)
RepulsionAll(ns, p, node1, j) ==
  IF j > Len(ns)
    THEN Zero
    ELSE LET node2 == ns[j]
             rest == RepulsionAll(ns, p, node1, j + 1)
         IN IF node2 # node1
              THEN VAdd(RepulsionFrom(p, node1, node2), rest)
              ELSE rest

\* the inner loop over node2 = ns[j], ns[j+1], ...
RECURSIVE Repulsion(_, _, _, _)
Repulsion(ns, p, node1, j) ==
  IF j > Len(ns)
    THEN Zero
    ELSE LET node2 == ns[j]
             rest == Repulsion(ns, p, node1, j + 1)
         IN IF node2 # node1 /\ ~Pinned(node2)
              THEN VAdd(RepulsionFrom(p, node1, node2), rest)
              ELSE rest

\* an attraction of magnitude 2 * attraction * distance
AttractionTwice(p, e) ==
  LET delta == VSub(p[e[1]], p[e[2]])
      distance == Max(min_distance, Norm(delta))
      force == (2 * attraction * distance) \div Milli
  IN Along(delta, force, distance)

\* delta * force / distance of one edge (u, v)
AttractionAlong(p, e) ==
  LET delta == VSub(p[e[1]], p[e[2]])
      distance == Max(min_distance, Norm(delta))
      force == (attraction * distance) \div Milli
  IN Along(delta, force, distance)

\* the edge loop without the test that skips the edges of the anchor
RECURSIVE AttractionAll(_, _, _)
AttractionAll(es, p, node) ==
  IF es = {}
    THEN Zero
    ELSE LET e == CHOOSE x \in es : TRUE
             rest == AttractionAll(es \ {e}, p, node)
             a == AttractionAlong(p, e)
         IN IF node = e[1] /\ ~Pinned(e[1])
              THEN VSub(rest, a)
              ELSE IF node = e[2] /\ ~Pinned(e[2])
                THEN VAdd(rest, a)
                ELSE rest

\* what the edge loop adds to displacement[node]
RECURSIVE Attraction(_, _, _)
Attraction(es, p, node) ==
  IF es = {}
    THEN Zero
    ELSE LET e == CHOOSE x \in es : TRUE
             rest == Attraction(es \ {e}, p, node)
             a == AttractionAlong(p, e)
         IN IF Pinned(e[1]) \/ Pinned(e[2])
              THEN rest
              ELSE IF node = e[1] /\ ~Pinned(e[1])
                THEN VSub(rest, a)
                ELSE IF node = e[2] /\ ~Pinned(e[2])
                  THEN VAdd(rest, a)
                  ELSE rest

\* the dictionary `displacement` at the end of the two force loops
displacement(ns, es, p) ==
  [node \in NodeSet(ns) |->
     IF Pinned(node)
       THEN Zero
       ELSE VAdd(Repulsion(ns, p, node, 1), Attraction(es, p, node))]

(* ------------------------------------------------------------ the solver *)
\* the move scaled by max(disp_length, temperature) instead of min
LimitedByMax(d, t) ==
  LET disp_length == Max(min_distance, Norm(d))
  IN IF disp_length >= t \div Milli
       THEN d
       ELSE <<SDiv(MulDiv(d[1], t, disp_length), Milli),
              SDiv(MulDiv(d[2], t, disp_length), Milli)>>

\* displacement[node] * min(disp_length, temperature) / disp_length
Limited(d, t) ==
  LET disp_length == Max(min_distance, Norm(d))
  IN IF disp_length <= t \div Milli
       THEN d
       ELSE <<SDiv(MulDiv(d[1], t, disp_length), Milli),
              SDiv(MulDiv(d[2], t, disp_length), Milli)>>

\* an iteration that moves each node as soon as its displacement is known, so
\* that the nodes after it are pushed from its new position
RECURSIVE StepInPlaceFrom(_, _, _, _, _)
StepInPlaceFrom(ns, es, p, t, i) ==
  IF i > Len(ns)
    THEN p
    ELSE LET k == ns[i]
             d == displacement(ns, es, p)
             q == IF Pinned(k) THEN p ELSE [p EXCEPT ![k] = VAdd(p[k], Limited(d[k], t))]
         IN StepInPlaceFrom(ns, es, q, t, i + 1)
StepInPlace(ns, es, p, t) == StepInPlaceFrom(ns, es, p, t, 1)

\* the position update of one iteration
Step(ns, es, p, t) ==
  LET d == displacement(ns, es, p)
  IN [k \in DOMAIN p |->
        IF k \in NodeSet(ns) /\ ~Pinned(k)
          THEN VAdd(p[k], Limited(d[k], t))
          ELSE p[k]]

\* a temperature that is never cooled
NoCooling(t) == t

\* the temperature cooled twice in one iteration
CoolTwice(t) == (((t * cooling_factor) \div Percent) * cooling_factor) \div Percent

\* temperature *= cooling_factor
Cool(t) == (t * cooling_factor) \div Percent

\* a loop that runs one iteration too many
LoopOffByOne(i, md) == i <= Iterations

\* a loop that also stops once a step moved every node less than the threshold
LoopUntilConverged(i, md) == i < Iterations /\ (i = 0 \/ md >= convergence_threshold)

\* for _ in range(100): whether another iteration follows the i-th
LoopContinues(i, md) == i < Iterations

\* the largest distance a node of the graph moved from p to q
MaxMove(ns, p, q) ==
  LET ds == {Norm(VSub(q[k], p[k])) : k \in NodeSet(ns)} \cup {0}
  IN CHOOSE m \in ds : \A x \in ds : x <= m

(* ------------------------------------------------------------- rescaling *)
SetMin(S) == CHOOSE m \in S : \A x \in S : m <= x
SetMax(S) == CHOOSE m \in S : \A x \in S : x <= m

\* max(max_x - min_x, max_y - min_y) over pos.values()
Extent(p) ==
  LET xs == {p[k][1] : k \in DOMAIN p}
      ys == {p[k][2] : k \in DOMAIN p}
  IN Max(SetMax(xs) - SetMin(xs), SetMax(ys) - SetMin(ys))

\* each axis scaled by its own factor, 5.0 / width and 5.0 / height
ScaledPerAxis(p, extent) ==
  LET xs == {p[k][1] : k \in DOMAIN p}
      ys == {p[k][2] : k \in DOMAIN p}
      width == Max(1, SetMax(xs) - SetMin(xs))
      height == Max(1, SetMax(ys) - SetMin(ys))
  IN [k \in DOMAIN p |->
        <<MulDiv(p[k][1], target_span, width), MulDiv(p[k][2], target_span, height)>>]

\* pos[node] * scale with scale = 5.0 / extent, extent > 0
Scaled(p, extent) ==
  [k \in DOMAIN p |->
     <<MulDiv(p[k][1], target_span, extent), MulDiv(p[k][2], target_span, extent)>>]

(* --------------------------------------------------------------- seeding *)
\* nx.random_layout(G, seed=42) followed by pos["INSR"] = (0, 0)
Seeded(ns, r) ==
  [k \in NodeSet(ns) \cup {Anchor} |->
     IF k = Anchor
       THEN Zero
       ELSE r[CHOOSE i \in 1..Len(ns) : ns[i] = k]]

(* ----------------------------------------------------------------- state *)
VARIABLES
  nodes,        \* G.nodes(), in iteration order
  edges,        \* G.edges()
  rng,          \* the rows RandomState(42).rand(len(G), 2) hands to random_layout
  phase,        \* "Start", "Seeded", "Running", "MaxIterationsReached", "Rescaled"
  pos,          \* the dictionary pos
  nan,          \* the keys of pos whose coordinate is nan
  temperature,
  iter,         \* iterations of the solver loop completed
  seeded,       \* pos as seeding left it
  disp,         \* the dictionary displacement of the last iteration
  prev,         \* pos as the last iteration found it
  clamp,        \* the temperature the last iteration limited its moves by
  maxDisp,      \* the largest distance a node moved in the last iteration
  data,         \* the interaction records create_network has processed
  adj,          \* the adjacency G._adj: node -> neighbour -> weight
  angle,        \* the angle the circular seeding placed each node at
  raw,          \* the dictionary the last library layout call returned
  run,          \* which call of the non-radial layout on the graph this is
  refined,      \* what the seeded library calls of the non-radial layout return
  first,        \* the positions the first call of the non-radial layout ended with
  edge_colors,  \* the list edge_colors of a drawing function
  edge_widths,  \* the list edge_widths of a drawing function
  levels,       \* the dictionary levels of the hierarchical layout
  functional_groups,  \* the dictionary functional_groups, in insertion order
  betweenness,  \* what nx.betweenness_centrality(G) returned
  shells        \* the list shells of the radial layout

\* the state of create_network
netVars == <<data, adj>>

\* the state of the spread-out layout besides the graph and pos
spreadVars == <<angle, raw>>

\* the state of the two calls of the non-radial layout
runVars == <<run, refined, first>>

\* the state of the drawing functions that read the interaction records
drawVars == <<edge_colors, edge_widths, levels, functional_groups, betweenness, shells>>

vars ==
  <<nodes, edges, rng, phase, pos, nan, temperature, iter, seeded, disp, prev, clamp, maxDisp,
    netVars, spreadVars, runVars, drawVars>>

\* a dictionary without keys
Blank == [k \in {} |-> Zero]

\* the variables of a function that is not running
SolverIdle ==
  /\ nan = {}
  /\ temperature = 0
  /\ iter = 0
  /\ seeded = Blank
  /\ disp = Blank
  /\ prev = Blank
  /\ clamp = 0
  /\ maxDisp = 0
NetIdle == data = <<>> /\ adj = Blank
SpreadIdle == angle = Blank /\ raw = Blank
RunIdle == run = 0 /\ refined = Blank /\ first = Blank
DrawIdle ==
  /\ edge_colors = <<>>
  /\ edge_widths = <<>>
  /\ levels = Blank
  /\ functional_groups = <<>>
  /\ betweenness = Blank
  /\ shells = <<>>

(* ---------------------------------------------------------------- inputs *)
\* the first rows of RandomState(42).rand(n, 2)
Seed42 == <<<<375, 951>>, <<732, 599>>, <<156, 156>>, <<58, 866>>>>

\* other rows a generator may return: the origin, a point closer to it than
\* the 0.01 floor, and an ordinary point
SeedPoints == {<<0, 0>>, <<4, 3>>, <<900, 100>>}

\* the non-anchor names A, B, ... in order, with or without the anchor in front
NodeLists ==
  LET others(n) == [i \in 1..n |-> Names[i + 1]]
  IN {others(n) : n \in 0..Min(MaxNodes, Len(Names) - 1)}
       \cup {<<Anchor>> \o others(n) : n \in 0..Min(MaxNodes, Len(Names)) - 1}

EdgeSets(ns) ==
  LET all == {<<ns[i], ns[j]>> : i \in 1..Len(ns), j \in 1..Len(ns)}
      cand == {e \in all : \E i, j \in 1..Len(ns) : i < j /\ e = <<ns[i], ns[j]>>}
  IN {es \in SUBSET cand : Cardinality(es) <= MaxEdges}

Streams(ns) ==
  {r \in [1..Len(ns) -> SeedPoints] :
     \A i \in 1..Len(ns) : Pinned(ns[i]) => r[i] = Zero}
    \cup {[i \in 1..Len(ns) |-> Seed42[i]]}

Init ==
  /\ nodes \in NodeLists
  /\ edges \in EdgeSets(nodes)
  /\ rng \in Streams(nodes)
  /\ phase = "Start"
  /\ pos = [k \in {} |-> Zero]
  /\ nan = {}
  /\ temperature = 0
  /\ iter = 0
  /\ seeded = [k \in {} |-> Zero]
  /\ disp = [k \in {} |-> Zero]
  /\ prev = [k \in {} |-> Zero]
  /\ clamp = 0
  /\ maxDisp = 0
  /\ NetIdle
  /\ SpreadIdle
  /\ RunIdle
  /\ DrawIdle

(* --------------------------------------------------------------- actions *)
\* lines 1504-1515: random layout, the parameters, the anchor forced to the centre
Seed ==
  /\ phase = "Start"
  /\ pos' = Seeded(nodes, rng)
  /\ seeded' = Seeded(nodes, rng)
  /\ temperature' = initial_temperature
  /\ phase' = "Seeded"
  /\ UNCHANGED <<nodes, edges, rng, nan, iter, disp, prev, clamp, maxDisp>>
  /\ UNCHANGED <<drawVars, netVars, spreadVars, runVars>>

\* the loop head: the solver is in its loop and range(100) is not exhausted
CanIterate == phase \in {"Seeded", "Running"} /\ LoopContinues(iter, maxDisp)

\* lines 1517-1560: one iteration of the solver loop
Iterate ==
  /\ CanIterate
  /\ disp' = displacement(nodes, edges, pos)
  /\ pos' = Step(nodes, edges, pos, temperature)
  /\ prev' = pos
  /\ clamp' = temperature
  /\ maxDisp' = MaxMove(nodes, pos, pos')
  /\ temperature' = Cool(temperature)
  /\ iter' = iter + 1
  /\ phase' = IF LoopContinues(iter + 1, maxDisp') THEN "Running" ELSE "MaxIterationsReached"
  /\ UNCHANGED <<nodes, edges, rng, nan, seeded>>
  /\ UNCHANGED <<drawVars, netVars, spreadVars, runVars>>

\* lines 1562-1570: the layout scaled to a span of 5.0
Rescale ==
  /\ phase = "MaxIterationsReached"
  /\ LET extent == Extent(pos)
     IN IF extent = 0
          THEN pos' = pos /\ nan' = DOMAIN pos
          ELSE pos' = Scaled(pos, extent) /\ nan' = nan
  /\ phase' = "Rescaled"
  /\ UNCHANGED <<nodes, edges, rng, temperature, iter, seeded, disp, prev, clamp, maxDisp>>
  /\ UNCHANGED <<drawVars, netVars, spreadVars, runVars>>

Next == Seed \/ Iterate \/ Rescale

Spec == Init /\ [][Next]_vars

(* -------------------------------------------------------- create_network *)
\* the names and the scores of the interaction records
RecordNames == {Names[i] : i \in 1..3}
Scores == {0, 1000, 1500}
Records == [preferredName_A : RecordNames, preferredName_B : RecordNames, score : Scores]

\* float(interaction['score']) / 1000, in Milli
Weight(interaction) == (interaction.score * Milli) \div 1000

NoNeighbours == Blank

\* an add_edge that records the edge at its first endpoint only
add_edge_one_way(a, u, v, w) ==
  LET a1 == IF u \in DOMAIN a THEN a ELSE a @@ (u :> NoNeighbours)
      a2 == IF v \in DOMAIN a1 THEN a1 ELSE a1 @@ (v :> NoNeighbours)
  IN [a2 EXCEPT ![u] = (v :> w) @@ @]

\* an add_edge that keeps the weight of an edge the graph already holds
add_edge_keep_first(a, u, v, w) ==
  LET a1 == IF u \in DOMAIN a THEN a ELSE a @@ (u :> NoNeighbours)
      a2 == IF v \in DOMAIN a1 THEN a1 ELSE a1 @@ (v :> NoNeighbours)
      a3 == [a2 EXCEPT ![u] = @ @@ (v :> w)]
  IN [a3 EXCEPT ![v] = @ @@ (u :> w)]

\* G.add_edge(u, v, weight=w) of an undirected nx.Graph: both endpoints become
\* nodes, and the weight is written at u for v and at v for u
add_edge(a, u, v, w) ==
  LET a1 == IF u \in DOMAIN a THEN a ELSE a @@ (u :> NoNeighbours)
      a2 == IF v \in DOMAIN a1 THEN a1 ELSE a1 @@ (v :> NoNeighbours)
      a3 == [a2 EXCEPT ![u] = (v :> w) @@ @]
  IN [a3 EXCEPT ![v] = (u :> w) @@ @]

\* the nodes a record adds to G.nodes(), in order
NewNodes(ns, u, v) ==
  LET n1 == IF u \in NodeSet(ns) THEN ns ELSE Append(ns, u)
  IN IF v \in NodeSet(n1) THEN n1 ELSE Append(n1, v)

InitNet ==
  /\ nodes = <<>>
  /\ edges = {}
  /\ rng = <<>>
  /\ phase = "Building"
  /\ pos = Blank
  /\ SolverIdle
  /\ NetIdle
  /\ SpreadIdle
  /\ RunIdle
  /\ DrawIdle

\* lines 14-18: the loop body for the next record of data
AddInteraction ==
  /\ phase = "Building"
  /\ Len(data) < MaxRecords
  /\ \E interaction \in Records :
       LET source == interaction.preferredName_A
           target == interaction.preferredName_B
           score == Weight(interaction)
       IN /\ data' = Append(data, interaction)
          /\ adj' = add_edge(adj, source, target, score)
          /\ nodes' = NewNodes(nodes, source, target)
  /\ UNCHANGED <<edges, rng, phase, pos, nan, temperature, iter, seeded, disp, prev, clamp, maxDisp>>
  /\ UNCHANGED <<drawVars, spreadVars, runVars>>

NextNet == AddInteraction

SpecNet == InitNet /\ [][NextNet]_vars

(* ------------------------------ create_spread_out_centered_visualization *)
\* angles are counted in twelfths of a turn: 2 * np.pi is Turn
Turn == 12
radius == 2000
ManualIterations == 100

\* np.cos of 0, 1, 2 and 3 twelfths of a turn, in Milli
CosTable == <<1000, 866, 500, 0>>

\* np.cos(a) and np.sin(a), in Milli
Cos(a) ==
  LET r == a % Turn
  IN IF r <= Turn \div 4
       THEN CosTable[r + 1]
       ELSE IF r <= Turn \div 2
         THEN 0 - CosTable[Turn \div 2 - r + 1]
         ELSE IF r <= 3 * (Turn \div 4)
           THEN 0 - CosTable[r - Turn \div 2 + 1]
           ELSE CosTable[Turn - r + 1]
Sin(a) == Cos(a + 3 * (Turn \div 4))

\* np.array([radius * np.cos(angle), radius * np.sin(angle)])
OnCircle(a) == <<SDiv(radius * Cos(a), Milli), SDiv(radius * Sin(a), Milli)>>

\* 2 * np.pi / (G.number_of_nodes() - 1) if G.number_of_nodes() > 1 else 0
angle_step(n) == IF n > 1 THEN Turn \div (n - 1) ELSE 0

\* the loop over G.nodes(): the angle of each node that is not the anchor,
\* from ns[i] on, the running angle being a
RECURSIVE CircularAngles(_, _, _, _)
CircularAngles(ns, i, a, step) ==
  IF i > Len(ns)
    THEN Blank
    ELSE IF ns[i] # Anchor
      THEN (ns[i] :> a) @@ CircularAngles(ns, i + 1, a + step, step)
      ELSE CircularAngles(ns, i + 1, a, step)

\* a layout that leaves the anchor where the library put it
LockNothing(q) == q

\* pos["INSR"] = np.array([0, 0])
Lock(q) == (Anchor :> Zero) @@ q

\* pos at the end of the circular seeding
Circular(ns) ==
  LET a == CircularAngles(ns, 1, 0, angle_step(Len(ns)))
  IN (Anchor :> Zero) @@ [k \in DOMAIN a |-> OnCircle(a[k])]

\* what a layout call of the networkx library may return for the layout p it is
\* given: a position for every node of G, here p moved as a whole by nothing,
\* by less than the convergence threshold, or by more
LibraryShifts == {<<0, 0>>, <<4, 3>>, <<300, -500>>}
LibraryLayouts(ns, p) == {[k \in NodeSet(ns) |-> VAdd(p[k], d)] : d \in LibraryShifts}

InitSpread ==
  /\ nodes \in NodeLists
  /\ edges \in EdgeSets(nodes)
  /\ rng = <<>>
  /\ phase = "SpreadStart"
  /\ pos = Blank
  /\ SolverIdle
  /\ NetIdle
  /\ SpreadIdle
  /\ RunIdle
  /\ DrawIdle

\* lines 591-604: the anchor at the centre, the other nodes on the circle
SeedCircular ==
  /\ phase = "SpreadStart"
  /\ angle' = CircularAngles(nodes, 1, 0, angle_step(Len(nodes)))
  /\ pos' = Circular(nodes)
  /\ seeded' = Circular(nodes)
  /\ phase' = "Circular"
  /\ UNCHANGED <<nodes, edges, rng, nan, temperature, iter, disp, prev, clamp, maxDisp>>
  /\ UNCHANGED <<drawVars, netVars, raw, runVars>>

\* lines 607-610: the library's Fruchterman-Reingold layout, then the anchor locked
FruchtermanReingold ==
  /\ phase = "Circular"
  /\ \E q \in LibraryLayouts(nodes, pos) :
       /\ raw' = q
       /\ pos' = Lock(q)
  /\ phase' = "Locked"
  /\ UNCHANGED <<nodes, edges, rng, nan, temperature, iter, seeded, disp, prev, clamp, maxDisp>>
  /\ UNCHANGED <<drawVars, netVars, angle, runVars>>

\* lines 615-625: one manual iteration; max() of no node raises ValueError
SpringStep ==
  /\ phase \in {"Locked", "Refining"}
  /\ iter < ManualIterations
  /\ \E q \in LibraryLayouts(nodes, pos) :
       /\ raw' = q
       /\ pos' = Lock(q)
  /\ iter' = iter + 1
  /\ maxDisp' = MaxMove(nodes, pos, pos')
  /\ phase' = IF nodes = <<>>
                THEN "ValueError"
                ELSE IF maxDisp' < convergence_threshold
                  THEN "Converged"
                  ELSE IF iter + 1 < ManualIterations
                    THEN "Refining"
                    ELSE "IterationsExhausted"
  /\ UNCHANGED <<nodes, edges, rng, nan, temperature, seeded, disp, prev, clamp>>
  /\ UNCHANGED <<drawVars, netVars, angle, runVars>>

NextSpread == SeedCircular \/ FruchtermanReingold \/ SpringStep

SpecSpread == InitSpread /\ [][NextSpread]_vars

\* the seeding of the two layouts that pin the anchor at the centre: the
\* force-atlas layout up to the head of its solver loop, the spread-out layout
InitSeeding == Init \/ InitSpread
NextSeeding == Seed \/ NextSpread
SpecSeeding == InitSeeding /\ [][NextSeeding]_vars

(* ---------------------------------- create_non_radial_ppi_visualization *)
\* the standard deviation of np.random.normal(0, 0.02), and the coordinate 0.1
jitter == 20
off_centre == 100

\* values a draw of np.random.normal(0, 0.02) may take
Jitter == {0 - jitter, jitter}

\* nx.random_layout(G, seed=42)
RandomLayout(ns, r) == [k \in NodeSet(ns) |-> r[CHOOSE i \in 1..Len(ns) : ns[i] = k]]

InitNonRadial ==
  /\ nodes \in NodeLists
  /\ edges \in EdgeSets(nodes)
  /\ rng = [i \in 1..Len(nodes) |-> Seed42[i]]
  /\ phase = "NonRadialStart"
  /\ pos = Blank
  /\ SolverIdle
  /\ NetIdle
  /\ SpreadIdle
  /\ run = 1
  /\ refined = Blank
  /\ first = Blank
  /\ DrawIdle

\* lines 295-301: the three library calls, each with seed=42; what they return
\* for the graph is drawn in the first call and is the same in the second
Refine ==
  /\ phase = "NonRadialStart"
  /\ \/ run = 1 /\ refined' \in LibraryLayouts(nodes, RandomLayout(nodes, rng))
     \/ run = 2 /\ refined' = refined
  /\ pos' = refined'
  /\ phase' = "Refined"
  /\ UNCHANGED <<nodes, edges, rng, nan, temperature, iter, seeded, disp, prev, clamp, maxDisp>>
  /\ UNCHANGED <<drawVars, netVars, spreadVars, run, first>>

\* lines 305-307: two draws of the global generator added to every node
Randomize ==
  /\ phase = "Refined"
  /\ \E draws \in [NodeSet(nodes) -> Jitter \X Jitter] :
       pos' = [node \in DOMAIN pos |-> VAdd(pos[node], draws[node])]
  /\ phase' = "Randomized"
  /\ UNCHANGED <<nodes, edges, rng, nan, temperature, iter, seeded, disp, prev, clamp, maxDisp>>
  /\ UNCHANGED <<drawVars, netVars, spreadVars, runVars>>

\* lines 310-311: the anchor, if the graph has it, moved off the centre
OffCentre ==
  /\ phase = "Randomized"
  /\ pos' = IF Anchor \in NodeSet(nodes)
              THEN [pos EXCEPT ![Anchor] = <<off_centre, off_centre>>]
              ELSE pos
  /\ phase' = "Drawn"
  /\ UNCHANGED <<nodes, edges, rng, nan, temperature, iter, seeded, disp, prev, clamp, maxDisp>>
  /\ UNCHANGED <<drawVars, netVars, spreadVars, runVars>>

\* the function called a second time on the same graph
CallAgain ==
  /\ phase = "Drawn"
  /\ run = 1
  /\ first' = pos
  /\ run' = 2
  /\ pos' = Blank
  /\ phase' = "NonRadialStart"
  /\ UNCHANGED <<nodes, edges, rng, nan, temperature, iter, seeded, disp, prev, clamp, maxDisp>>
  /\ UNCHANGED <<drawVars, netVars, spreadVars, refined>>

NextNonRadial == Refine \/ Randomize \/ OffCentre \/ CallAgain

SpecNonRadial == InitNonRadial /\ [][NextNonRadial]_vars

(* ------------------------------------- the graph a drawing function is given *)
\* the evidence scores of a record, in Milli, and the bound 0.7 they are compared with
evidence_threshold == 700
DrawRecords ==
  [preferredName_A : RecordNames, preferredName_B : RecordNames, score : {400, 900},
   escore : {0, 900}, dscore : {0, 900}, tscore : {0, 900}]

\* get_interaction_type(interaction): the type and the colour
get_interaction_type(interaction) ==
  IF interaction.escore > evidence_threshold
    THEN <<"physical", "#7E57C2">>
    ELSE IF interaction.dscore > evidence_threshold
      THEN <<"functional", "#4CAF50">>
      ELSE IF interaction.tscore > evidence_threshold
        THEN <<"text_mining", "#F44336">>
        ELSE <<"other", "#90A4AE">>

\* the elements of a sequence
Range(q) == {q[i] : i \in 1..Len(q)}

\* the sequences over S of length at most n
SeqsUpTo(S, n) == UNION {[1..k -> S] : k \in 0..n}

\* G.add_edge(u, v) on the order in which each node lists its neighbours
add_neighbour(o, u, v) ==
  LET o1 == IF u \in DOMAIN o THEN o ELSE o @@ (u :> <<>>)
      o2 == IF v \in DOMAIN o1 THEN o1 ELSE o1 @@ (v :> <<>>)
      o3 == IF v \in Range(o2[u]) THEN o2 ELSE [o2 EXCEPT ![u] = Append(@, v)]
  IN IF u \in Range(o3[v]) THEN o3 ELSE [o3 EXCEPT ![v] = Append(@, u)]

\* create_network(d): the nodes in insertion order, the weights, and the order
\* in which each node lists its neighbours
RECURSIVE create_network(_)
create_network(d) ==
  IF d = <<>>
    THEN [node |-> <<>>, adj |-> Blank, order |-> Blank]
    ELSE LET G == create_network(SubSeq(d, 1, Len(d) - 1))
             interaction == d[Len(d)]
             source == interaction.preferredName_A
             target == interaction.preferredName_B
         IN [node |-> NewNodes(G.node, source, target),
             adj |-> add_edge(G.adj, source, target, Weight(interaction)),
             order |-> add_neighbour(G.order, source, target)]

\* G.edges() of an undirected graph: every node in order with its neighbours
\* in order, an edge to a node visited earlier being left out
RECURSIVE G_edges(_, _, _)
G_edges(ns, o, i) ==
  IF i > Len(ns)
    THEN <<>>
    ELSE LET u == ns[i]
             seen == {ns[j] : j \in 1..(i - 1)}
             nbrs == SelectSeq(o[u], LAMBDA v : v \notin seen)
         IN [k \in 1..Len(nbrs) |-> <<u, nbrs[k]>>] \o G_edges(ns, o, i + 1)

\* the state in which a drawing function is called with G = create_network(built)
\* and data = d; `edges` holds G.edges() as the sequence the loops iterate
Called(built, d) ==
  /\ data = d
  /\ LET G == create_network(built)
     IN /\ nodes = G.node
        /\ adj = G.adj
        /\ edges = G_edges(G.node, G.order, 1)
  /\ rng = <<>>
  /\ phase = "Built"
  /\ pos = Blank
  /\ SolverIdle
  /\ SpreadIdle
  /\ RunIdle
  /\ DrawIdle

(* ------------------------------------------------ the edge-property loops *)
\* whether the record names the edge (u, v) in either orientation
Names_edge(interaction, e) ==
  \/ interaction.preferredName_A = e[1] /\ interaction.preferredName_B = e[2]
  \/ interaction.preferredName_A = e[2] /\ interaction.preferredName_B = e[1]

\* a scan without the break: every record that names the edge is taken
RECURSIVE ScanAll(_, _)
ScanAll(es, d) ==
  IF es = <<>>
    THEN <<>>
    ELSE LET hits == SelectSeq(d, LAMBDA r : Names_edge(r, Head(es)))
         IN [k \in 1..Len(hits) |-> <<Head(es), hits[k]>>] \o ScanAll(Tail(es), d)

\* for u, v in G.edges(): for interaction in data: if ...: ...; break
\* the edges paired with the record the scan stops at, in order
RECURSIVE Scan(_, _)
Scan(es, d) ==
  IF es = <<>>
    THEN <<>>
    ELSE LET hits == {i \in 1..Len(d) : Names_edge(d[i], Head(es))}
         IN (IF hits = {} THEN <<>> ELSE <<(<<Head(es), d[SetMin(hits)]>>)>>)
              \o Scan(Tail(es), d)

\* 1 + 3 * float(interaction['score']) / 1000, in Milli
EvidenceWidth(e, w) == 1000 + 3 * w

\* 2 + 2 * score / 1000 if "INSR" in (u, v) else 0.5 + 2 * score / 1000, in Milli
ForceAtlasWidth(e, w) == IF Anchor \in {e[1], e[2]} THEN 2000 + 2 * w ELSE 500 + 2 * w

\* the records of the edge loops: two scores, physical or other evidence
EdgeRecords ==
  {r \in DrawRecords :
     r.dscore = 0 /\ r.tscore = 0 /\ r.preferredName_A # r.preferredName_B}

InitEdges == \E d \in SeqsUpTo(EdgeRecords, MaxRecords) : Called(d, d)

\* create_interaction_evidence_network_visualization, lines 27-38
EvidenceEdges ==
  /\ phase = "Built"
  /\ LET found == Scan(edges, data)
     IN /\ edge_colors' = [k \in 1..Len(found) |-> get_interaction_type(found[k][2])[2]]
        /\ edge_widths' = [k \in 1..Len(found) |-> EvidenceWidth(found[k][1], Weight(found[k][2]))]
  /\ phase' = "EvidenceStyled"
  /\ UNCHANGED <<nodes, edges, rng, pos, nan, temperature, iter, seeded, disp, prev, clamp, maxDisp>>
  /\ UNCHANGED <<netVars, spreadVars, runVars, levels, functional_groups, betweenness, shells>>

\* create_force_atlas_visualization, lines 1591-1606
ForceAtlasEdges ==
  /\ phase = "Built"
  /\ LET found == Scan(edges, data)
     IN /\ edge_colors' = [k \in 1..Len(found) |-> get_interaction_type(found[k][2])[2]]
        /\ edge_widths' = [k \in 1..Len(found) |-> ForceAtlasWidth(found[k][1], Weight(found[k][2]))]
  /\ phase' = "ForceAtlasStyled"
  /\ UNCHANGED <<nodes, edges, rng, pos, nan, temperature, iter, seeded, disp, prev, clamp, maxDisp>>
  /\ UNCHANGED <<netVars, spreadVars, runVars, levels, functional_groups, betweenness, shells>>

NextEdges == EvidenceEdges \/ ForceAtlasEdges

SpecEdges == InitEdges /\ [][NextEdges]_vars

(* ------------------------------------------------ the hierarchical levels *)
\* the result of a search that finds no path
NoPath == 0 - 1

\* an undirected graph as the directed graph with both orientations
BothWays(E) == E \cup {<<e[2], e[1]>> : e \in E}

\* DG: an edge that touches INSR leaves INSR, any other edge keeps the
\* orientation G.edges() gave it
DiGraph(es) ==
  {IF Anchor \in {es[i][1], es[i][2]}
     THEN (IF es[i][1] = Anchor THEN es[i] ELSE <<es[i][2], es[i][1]>>)
     ELSE es[i] : i \in 1..Len(es)}

\* nx.shortest_path_length(DG, source, target) by breadth-first search along
\* the directed edges E; NoPath where nx.has_path is False
RECURSIVE shortest_path_length(_, _, _, _, _)
shortest_path_length(E, frontier, seen, target, k) ==
  IF target \in frontier
    THEN k
    ELSE IF frontier = {}
      THEN NoPath
      ELSE shortest_path_length(E,
             {e[2] : e \in {x \in E : x[1] \in frontier}} \ (seen \cup frontier),
             seen \cup frontier, target, k + 1)

\* the records of the level computation: every pair of names, self-loops too
LevelRecords ==
  {r \in DrawRecords : r.escore = 0 /\ r.dscore = 0 /\ r.tscore = 0 /\ r.score = 900}

InitLevels == \E d \in SeqsUpTo(LevelRecords, MaxRecords) : Called(d, d)

\* create_hierarchical_layout_visualization, lines 1138-1170
HierarchicalLevels ==
  /\ phase = "Built"
  /\ LET DG == DiGraph(edges)
         found(node) == shortest_path_length(DG, {Anchor}, {}, node, 0)
     IN IF nodes = <<>>
          THEN levels' = Blank /\ phase' = "ValueError"
          ELSE IF Anchor \notin Range(nodes)
            THEN levels' = Blank /\ phase' = "NodeNotFound"
            ELSE /\ levels' = [node \in Range(nodes) |->
                                IF node = Anchor
                                  THEN 0
                                  ELSE IF found(node) # NoPath THEN found(node) ELSE 1]
                 /\ phase' = "Levelled"
  /\ UNCHANGED <<nodes, edges, rng, pos, nan, temperature, iter, seeded, disp, prev, clamp, maxDisp>>
  /\ UNCHANGED <<netVars, spreadVars, runVars, edge_colors, edge_widths, functional_groups, betweenness, shells>>

NextLevels == HierarchicalLevels

SpecLevels == InitLevels /\ [][NextLevels]_vars

(* ------------------------------------------------------ the radial shells *)
\* the nodes other than INSR, and the values nx.betweenness_centrality may give
ShellNames == <<"A", "B", "C", "D", "E", "F", "G">>
Centralities == {0, 500, 1000}

\* the sequence q with x put in front of its element number at
InsertAt(q, x, at) == SubSeq(q, 1, at - 1) \o <<x>> \o SubSeq(q, at, Len(q))

\* a wrong second cutoff: twice the first one
cutoff2_twice_cutoff1(n) == 2 * (n \div 3)

\* cutoff1 = n // 3 and cutoff2 = 2 * n // 3
cutoff1(n) == n \div 3
cutoff2(n) == (2 * n) \div 3

\* sorted(q, key=f, reverse=True): descending and stable, elements of equal
\* key keep the order they had
RECURSIVE sorted_reverse(_, _)
sorted_reverse(q, f) ==
  IF q = <<>>
    THEN <<>>
    ELSE LET top == SetMax({f[q[i]] : i \in 1..Len(q)})
             at == SetMin({i \in 1..Len(q) : f[q[i]] = top})
         IN <<q[at]>> \o sorted_reverse(SubSeq(q, 1, at - 1) \o SubSeq(q, at + 1, Len(q)), f)

\* a graph of up to MaxOthers nodes, with INSR anywhere in the node order or absent
InitShells ==
  /\ \E n \in 0..MaxOthers : \E at \in 0..(n + 1) :
       nodes = IF at = 0 THEN SubSeq(ShellNames, 1, n)
                         ELSE InsertAt(SubSeq(ShellNames, 1, n), Anchor, at)
  /\ edges = <<>>
  /\ rng = <<>>
  /\ phase = "Radial"
  /\ pos = Blank
  /\ SolverIdle
  /\ NetIdle
  /\ SpreadIdle
  /\ RunIdle
  /\ DrawIdle

\* create_radial_layout_visualization, lines 1286-1300
RadialShells ==
  /\ phase = "Radial"
  /\ betweenness' \in [Range(nodes) -> Centralities]
  /\ LET sorted_nodes == sorted_reverse(SelectSeq(nodes, LAMBDA node : node # Anchor), betweenness')
         n == Len(sorted_nodes)
     IN shells' = << <<Anchor>>,
                     SubSeq(sorted_nodes, 1, cutoff1(n)),
                     SubSeq(sorted_nodes, cutoff1(n) + 1, cutoff2(n)),
                     SubSeq(sorted_nodes, cutoff2(n) + 1, n) >>
  /\ phase' = "Shelled"
  /\ UNCHANGED <<nodes, edges, rng, pos, nan, temperature, iter, seeded, disp, prev, clamp, maxDisp>>
  /\ UNCHANGED <<netVars, spreadVars, runVars, edge_colors, edge_widths, levels, functional_groups>>

NextShells == RadialShells

SpecShells == InitShells /\ [][NextShells]_vars

(* --------------------------------------------------- the functional groups *)
\* the side of a group's box and the step of the grid of boxes
box_size == 1800
grid_step == 5000

\* the records of the grouping: physical, functional or other evidence, every
\* pair of names, self-loops too
GroupRecords ==
  {r \in DrawRecords :
     r.score = 900 /\ r.tscore = 0 /\ ~(r.escore > 0 /\ r.dscore > 0)}

\* protein_interactions[node]: the types of the records that name the node,
\* once for each end that names it
RECURSIVE protein_interactions(_, _)
protein_interactions(d, node) ==
  IF d = <<>>
    THEN <<>>
    ELSE LET int_type == get_interaction_type(Head(d))[1]
         IN (IF Head(d).preferredName_A = node THEN <<int_type>> ELSE <<>>)
              \o (IF Head(d).preferredName_B = node THEN <<int_type>> ELSE <<>>)
              \o protein_interactions(Tail(d), node)

\* type_counts[int_type]
type_counts(int_types, t) == Cardinality({i \in 1..Len(int_types) : int_types[i] = t})

\* the most common type, the last one counted on a tie
dominant_last(int_types) ==
  LET top == SetMax({type_counts(int_types, int_types[i]) : i \in 1..Len(int_types)})
  IN int_types[SetMax({i \in 1..Len(int_types) : type_counts(int_types, int_types[i]) = top})]

\* max(type_counts.items(), key=lambda x: x[1])[0]: the first type, in the
\* order the types were first counted, whose count is the largest
dominant(int_types) ==
  LET top == SetMax({type_counts(int_types, int_types[i]) : i \in 1..Len(int_types)})
  IN int_types[SetMin({i \in 1..Len(int_types) : type_counts(int_types, int_types[i]) = top})]

\* dominant_type of a protein
dominant_type(d, protein) ==
  IF protein = Anchor
    THEN "central"
    ELSE IF protein_interactions(d, protein) = <<>>
      THEN "unknown"
      ELSE dominant(protein_interactions(d, protein))

\* functional_groups after the proteins ns[1..i]: the groups in the order they
\* were created, each with its members in the order they were appended
RECURSIVE grouping(_, _, _)
grouping(ns, d, i) ==
  IF i = 0
    THEN <<>>
    ELSE LET fg == grouping(ns, d, i - 1)
             g == dominant_type(d, ns[i])
             at == {j \in 1..Len(fg) : fg[j][1] = g}
         IN IF at = {}
              THEN Append(fg, <<g, <<ns[i]>> >>)
              ELSE [fg EXCEPT ![SetMin(at)] = <<g, Append(@[2], ns[i])>>]

\* int(np.ceil(np.sqrt(n_groups)))
grid_size(n_groups) ==
  CHOOSE k \in 0..n_groups : k * k >= n_groups /\ (k = 0 \/ (k - 1) * (k - 1) < n_groups)

\* the centre of the box of group number idx, counted from 0
box_center(idx, gs) ==
  <<(idx % gs) * grid_step - (gs * grid_step) \div 2 + grid_step \div 2,
    (idx \div gs) * grid_step - (gs * grid_step) \div 2 + grid_step \div 2>>

\* box_size * 0.7
box_radius == (box_size * 7) \div 10

\* member i, counted from 0, of n_members on the circle of a box
MemberOnCircle(c, i, n_members) ==
  LET a == IF n_members = 1 THEN 0 ELSE (Turn * i) \div n_members
  IN VAdd(c, <<SDiv(box_radius * Cos(a), Milli), SDiv(box_radius * Sin(a), Milli)>>)

\* step 4, lines 801-841: the positions of the groups fg[1..j]
RECURSIVE grid_positions(_, _)
grid_positions(fg, j) ==
  IF j = 0
    THEN Blank
    ELSE LET c == box_center(j - 1, grid_size(Len(fg)))
             members == fg[j][2]
             here == IF fg[j][1] = "central"
                       THEN (Anchor :> c)
                       ELSE [k \in Range(members) |->
                               MemberOnCircle(c, SetMin({i \in 1..Len(members) : members[i] = k}) - 1,
                                              Len(members))]
         IN here @@ grid_positions(fg, j - 1)

\* step 5, lines 848-868: the members of every group but the central one laid
\* out by the library and scaled into the box of the group
refined_positions(fg, p, shift) ==
  [k \in DOMAIN p |->
     IF k = Anchor
       THEN p[k]
       ELSE LET j == CHOOSE j \in 1..Len(fg) : k \in Range(fg[j][2])
                c == box_center(j - 1, grid_size(Len(fg)))
                q == VAdd(p[k], shift[j])
            IN VAdd(c, <<SDiv(q[1] * box_radius, Milli), SDiv(q[2] * box_radius, Milli)>>)]

\* the function is called with the graph of some records and with all of
\* them, or all but the last, as data
InitGroups ==
  \E built \in SeqsUpTo(GroupRecords, MaxRecords) :
    \E d \in {built, SubSeq(built, 1, Len(built) - 1)} : Called(built, d)

\* create_functional_group_visualization, lines 755-789
FunctionalGroups ==
  /\ phase = "Built"
  /\ functional_groups' = grouping(nodes, data, Len(nodes))
  /\ phase' = "Grouped"
  /\ UNCHANGED <<nodes, edges, rng, pos, nan, temperature, iter, seeded, disp, prev, clamp, maxDisp>>
  /\ UNCHANGED <<netVars, spreadVars, runVars, edge_colors, edge_widths, levels, betweenness, shells>>

\* create_functional_group_visualization, lines 801-868
GroupLayout ==
  /\ phase = "Grouped"
  /\ LET placed == grid_positions(functional_groups, Len(functional_groups))
     IN IF Anchor \notin DOMAIN placed
          THEN pos' = placed /\ phase' = "KeyError"
          ELSE /\ \E shift \in [1..Len(functional_groups) -> LibraryShifts] :
                    pos' = refined_positions(functional_groups, placed, shift)
               /\ phase' = "Positioned"
  /\ UNCHANGED <<nodes, edges, rng, nan, temperature, iter, seeded, disp, prev, clamp, maxDisp>>
  /\ UNCHANGED <<netVars, spreadVars, runVars, drawVars>>

NextGroups == FunctionalGroups \/ GroupLayout

SpecGroups == InitGroups /\ [][NextGroups]_vars

(* ------------------------------------ the solver with rounding additions *)
\* The code adds the forces in floating point: every += and -= rounds its
\* result to the nearest number with the significand of the format, ties to
\* even.  Here the same rounding with a significand of Precision bits.
RECURSIVE Ulp(_)
Ulp(x) == IF Abs(x) < 2^Precision THEN 1 ELSE 2 * Ulp(SDiv(x, 2))

\* x rounded to the nearest multiple of u, ties to the even multiple
RoundEven(x, u) ==
  LET q == (x - (x % u)) \div u
      r == x % u
  IN IF 2 * r < u
       THEN q * u
       ELSE IF 2 * r > u
         THEN (q + 1) * u
         ELSE IF q % 2 = 0 THEN q * u ELSE (q + 1) * u

fl(x) == RoundEven(x, Ulp(x))

\* a += b and a -= b on arrays of two floats
FVAdd(a, b) == <<fl(a[1] + b[1]), fl(a[2] + b[2])>>
FVSub(a, b) == <<fl(a[1] - b[1]), fl(a[2] - b[2])>>

\* lines 1522-1533: displacement[node1] after the inner loop from ns[j] on
RECURSIVE RoundedRepulsion(_, _, _, _, _)
RoundedRepulsion(ns, p, node1, j, acc) ==
  IF j > Len(ns)
    THEN acc
    ELSE RoundedRepulsion(ns, p, node1, j + 1,
           IF ns[j] # node1 /\ ~Pinned(ns[j])
             THEN FVAdd(acc, RepulsionFrom(p, node1, ns[j]))
             ELSE acc)

\* lines 1535-1549: the dictionary displacement after the edges es[k], es[k+1], ...
RECURSIVE RoundedAttraction(_, _, _, _)
RoundedAttraction(es, p, k, d) ==
  IF k > Len(es)
    THEN d
    ELSE IF Pinned(es[k][1]) \/ Pinned(es[k][2])
      THEN RoundedAttraction(es, p, k + 1, d)
      ELSE LET a == AttractionAlong(p, es[k])
               d1 == [d EXCEPT ![es[k][1]] = FVSub(@, a)]
               d2 == [d1 EXCEPT ![es[k][2]] = FVAdd(@, a)]
           IN RoundedAttraction(es, p, k + 1, d2)

\* the dictionary `displacement` at the end of the two force loops
rounded_displacement(ns, es, p) ==
  RoundedAttraction(es, p, 1,
    [node \in NodeSet(ns) |->
       IF Pinned(node) THEN Zero ELSE RoundedRepulsion(ns, p, node, 1, Zero)])

\* a record that links u and v
Link(u, v) ==
  [preferredName_A |-> u, preferredName_B |-> v, score |-> 900,
   escore |-> 0, dscore |-> 0, tscore |-> 0]

\* two lists of records for one graph: A and B are linked to INSR, C and D;
\* in the second list the records of B name D before C
TwinData ==
  {<<Link(Anchor, "A"), Link(Anchor, "B"), Link("A", "C"), Link("A", "D"),
     Link("B", "C"), Link("B", "D")>>,
   <<Link(Anchor, "A"), Link(Anchor, "B"), Link("A", "C"), Link("A", "D"),
     Link("B", "D"), Link("B", "C")>>}

\* the places the layout may start from: A and B at the same place or not
TwinPoints == {<<300, 400>>, <<248, 500>>}
FarPoints == {<<900, 100>>, <<752, 124>>}
HighPoints == {<<200, 800>>, <<124, 876>>}

InitRounded ==
  /\ \E d \in TwinData :
       LET G == create_network(d)
       IN nodes = G.node /\ edges = G_edges(G.node, G.order, 1)
  /\ \E a \in TwinPoints, b \in TwinPoints, c \in FarPoints, h \in HighPoints :
       pos = (Anchor :> Zero) @@ ("A" :> a) @@ ("B" :> b) @@ ("C" :> c) @@ ("D" :> h)
  /\ seeded = pos
  /\ rng = <<>>
  /\ phase = "Rounding"
  /\ nan = {}
  /\ temperature = initial_temperature
  /\ iter = 0
  /\ disp = Blank
  /\ prev = Blank
  /\ clamp = 0
  /\ maxDisp = 0
  /\ NetIdle
  /\ SpreadIdle
  /\ RunIdle
  /\ DrawIdle

\* lines 1517-1560: one iteration of the solver loop, its additions rounded
RoundedIterate ==
  /\ phase = "Rounding"
  /\ LoopContinues(iter, maxDisp)
  /\ disp' = rounded_displacement(nodes, edges, pos)
  /\ pos' = [k \in DOMAIN pos |->
               IF Pinned(k) THEN pos[k] ELSE FVAdd(pos[k], Limited(disp'[k], temperature))]
  /\ prev' = pos
  /\ clamp' = temperature
  /\ maxDisp' = MaxMove(nodes, pos, pos')
  /\ temperature' = Cool(temperature)
  /\ iter' = iter + 1
  /\ phase' = IF LoopContinues(iter + 1, maxDisp') THEN "Rounding" ELSE "RoundedDone"
  /\ UNCHANGED <<nodes, edges, rng, nan, seeded>>
  /\ UNCHANGED <<drawVars, netVars, spreadVars, runVars>>

NextRounded == RoundedIterate

SpecRounded == InitRounded /\ [][NextRounded]_vars

(* ------------------------------------------------------------ properties *)
InSolver == phase \in {"Seeded", "Running", "MaxIterationsReached"}
Movable == {k \in NodeSet(nodes) : ~Pinned(k)}

\* C1: from the start of the solver run, through every iteration, to its end,
\* the anchor "INSR" is at the coordinate seeding pinned it to, (0, 0), and is
\* a number.
C1_AnchorFixedInSolver ==
  InSolver => (pos[Anchor] = seeded[Anchor] /\ pos[Anchor] = Zero /\ Anchor \notin nan)

C1_Witness ==
  /\ phase = "MaxIterationsReached"
  /\ Anchor \in NodeSet(nodes)
  /\ \E e \in edges : Pinned(e[1])
  /\ \E k \in Movable : pos[k] # seeded[k]

\* C2: the rescaling step leaves the anchor's coordinate as it was, and every
\* other coordinate is scaled about the anchor by the factor 5.0 / extent.
C2_RescaleKeepsAnchor ==
  [][(phase = "MaxIterationsReached" /\ phase' = "Rescaled") =>
       /\ Anchor \notin nan'
       /\ pos'[Anchor] = pos[Anchor]
       /\ \A k \in DOMAIN pos :
            VSub(pos'[k], pos'[Anchor])
              = <<MulDiv(pos[k][1] - pos[Anchor][1], target_span, Extent(pos)),
                  MulDiv(pos[k][2] - pos[Anchor][2], target_span, Extent(pos))>>]_vars

\* C3: after seeding, after every iteration and after rescaling, pos has one
\* entry per node of the graph and no other entry.
C3_OneEntryPerNode == phase # "Start" => DOMAIN pos = NodeSet(nodes)

\* C5: the solver loop never runs past the iteration limit, is never stuck
\* before it, and is in MaxIterationsReached exactly when the limit is reached.
C5_SolverTerminates ==
  /\ iter \in 0..Iterations
  /\ phase \in {"Seeded", "Running"} => (iter < Iterations /\ CanIterate)
  /\ phase \in {"MaxIterationsReached", "Rescaled"} => iter = Iterations
  /\ phase = "Running" => iter >= 1

C5_Witness ==
  /\ phase = "MaxIterationsReached"
  /\ Len(nodes) >= 2
  /\ edges = {}

C7_MoveWithinTemperature ==
  (InSolver /\ iter >= 1) =>
    \A k \in Movable :
      LET m == VSub(pos[k], prev[k])
          limit == (clamp + Milli - 1) \div Milli + 1
      IN m[1] * m[1] + m[2] * m[2] <= limit * limit

C7_Witness ==
  /\ InSolver
  /\ iter >= 1
  /\ clamp < min_distance * Milli
  /\ \E k \in Movable :
       /\ Norm(disp[k]) < min_distance
       /\ pos[k] # prev[k]

\* initialTemperature * coolingFactor^n, one multiplication at a time
RECURSIVE TempAt(_)
TempAt(n) ==
  IF n = 0 THEN initial_temperature ELSE (TempAt(n - 1) * cooling_factor) \div Percent

\* C8: iteration n (from 0) limits its moves by initialTemperature *
\* coolingFactor^n; the temperature is cooled once, after the update, and
\* every cooling lowers it.
C8_TemperatureSchedule ==
  phase # "Start" =>
    /\ temperature = TempAt(iter)
    /\ iter >= 1 => (clamp = TempAt(iter - 1) /\ temperature < clamp /\ temperature > 0)

C8_Witness ==
  /\ iter = Iterations
  /\ clamp = TempAt(Iterations - 1)
  /\ temperature < clamp

\* C10: for a graph of zero or one node no solver step is executed and the
\* positions stay the seeded ones.
C10_TrivialGraphSkipsSolver ==
  (Len(nodes) <= 1 /\ phase # "Start") =>
    (iter = 0 /\ phase # "Running" /\ pos = seeded /\ nan = {})

RescaleStep == phase = "MaxIterationsReached" /\ phase' = "Rescaled"

\* C11: when the bounding box of pos has zero width and zero height, rescaling
\* leaves every position unchanged and finite.
C11_DegenerateLayoutUntouched ==
  [][(RescaleStep /\ Extent(pos) = 0) => (pos' = pos /\ nan' = {})]_vars

\* C12: for a layout of non-zero extent, rescaling multiplies the X and the Y
\* of every node by one positive factor (x' * y = y' * x up to the rounding of
\* the two products, no sign flipped), and the larger side of the bounding box
\* of the whole of pos is then the target span 5.0 (up to two coordinate units
\* of truncation).
C12_UniformRescale ==
  [][(RescaleStep /\ Extent(pos) > 0) =>
       /\ nan' = {}
       /\ Extent(pos') <= target_span
       /\ Extent(pos') >= target_span - 2
       /\ \A k \in DOMAIN pos :
            /\ Abs(pos'[k][1] * pos[k][2] - pos'[k][2] * pos[k][1])
                 <= Abs(pos[k][1]) + Abs(pos[k][2])
            /\ pos'[k][1] * pos[k][1] >= 0
            /\ pos'[k][2] * pos[k][2] >= 0]_vars

C12_Witness ==
  /\ phase = "Rescaled"
  /\ nan = {}
  /\ Cardinality(Movable) >= 2
  /\ Anchor \in NodeSet(nodes)
  /\ Extent(pos) >= target_span - 2
  /\ \E k \in Movable : pos[k][1] # 0 /\ pos[k][2] # 0 /\ pos[k][1] # pos[k][2]

\* another coordinate for the anchor, among the seeded nodes
OtherAnchorPos == <<732, 599>>

\* the edges of the graph with those of the anchor exchanged for the ones absent
OtherAnchorEdges ==
  {e \in edges : ~Pinned(e[1]) /\ ~Pinned(e[2])}
    \cup {<<Anchor, k>> : k \in {n \in Movable : Anchor \in NodeSet(nodes)
                                           /\ <<Anchor, n>> \notin edges}}

\* C15: the anchor is invisible to the forces: the iteration just done gives
\* every non-pinned node the same position when it is run with the anchor at
\* another coordinate and with another set of edges at the anchor.
C15_AnchorInvisible ==
  (InSolver /\ iter >= 1) =>
    LET q == Step(nodes, OtherAnchorEdges, [prev EXCEPT ![Anchor] = OtherAnchorPos], clamp)
    IN \A k \in Movable : q[k] = pos[k]

C15_Witness ==
  /\ InSolver
  /\ iter >= 1
  /\ Anchor \in NodeSet(nodes)
  /\ Cardinality(Movable) >= 2
  /\ OtherAnchorEdges # edges
  /\ \E e \in edges : Pinned(e[1])
  /\ \E k \in Movable : pos[k] # prev[k]

\* the distance d with repulsion / d^2 = attraction * d, in Milli (found in
\* hundredths: d^3 = repulsion / attraction)
Equilibrium ==
  LET cube == (repulsion * Micro) \div attraction
      d == CHOOSE x \in 0..Milli : x * x * x <= cube /\ cube < (x + 1) * (x + 1) * (x + 1)
  IN d * (Milli \div Percent)

\* the graph is one edge between the anchor and one other node
SingleAnchorEdge ==
  /\ Len(nodes) = 2
  /\ Anchor \in NodeSet(nodes)
  /\ Cardinality(edges) = 1

\* C16 as stated: for a graph of one edge with the anchor at one end, the
\* solver ends with the two endpoints at the equilibrium distance (within 0.05).
C16_ReachesEquilibrium ==
  (SingleAnchorEdge /\ phase = "MaxIterationsReached") =>
    \A k \in Movable :
      Abs(Norm(VSub(pos[k], pos[Anchor])) - Equilibrium) <= Milli \div 20

\* C16 amended: in that graph the other endpoint receives no force at all: its
\* displacement is zero in every iteration and it stays where seeding put it.
C16_OtherEndpointStays ==
  (SingleAnchorEdge /\ InSolver) =>
    \A k \in Movable : pos[k] = seeded[k] /\ (iter >= 1 => disp[k] = Zero)

C16_Witness ==
  /\ SingleAnchorEdge
  /\ phase = "MaxIterationsReached"
  /\ \E k \in Movable : pos[k] # pos[Anchor] /\ pos[k] = seeded[k]

MoveBound(t) == (t + Milli - 1) \div Milli + 1

PairOf(interaction) == {interaction.preferredName_A, interaction.preferredName_B}

\* the unordered pairs the records name, and the edges of the graph
PairsNamed == {PairOf(data[i]) : i \in 1..Len(data)}
EdgesOf == UNION {{{u, v} : v \in DOMAIN adj[u]} : u \in DOMAIN adj}

\* the last record of data that names the pair, in either orientation
LastNaming(pair) ==
  data[CHOOSE i \in 1..Len(data) :
         /\ PairOf(data[i]) = pair
         /\ \A j \in (i + 1)..Len(data) : PairOf(data[j]) # pair]

\* C13: after any sequence of records the graph holds exactly one edge per
\* unordered pair of names some record names, seen alike from both endpoints,
\* and its weight is score/1000 of the last record naming the pair.
C13_OneEdgePerPairLastWeight ==
  /\ EdgesOf = PairsNamed
  /\ NodeSet(nodes) = UNION PairsNamed
  /\ DOMAIN adj = NodeSet(nodes)
  /\ \A u \in DOMAIN adj : \A v \in DOMAIN adj :
       /\ (v \in DOMAIN adj[u]) = (u \in DOMAIN adj[v])
       /\ v \in DOMAIN adj[u] =>
            /\ adj[u][v] = Weight(LastNaming({u, v}))
            /\ adj[v][u] = adj[u][v]

C13_Witness ==
  /\ Len(data) = 3
  /\ PairOf(data[1]) = PairOf(data[3])
  /\ data[1].preferredName_A = data[3].preferredName_B
  /\ data[1].preferredName_A # data[1].preferredName_B
  /\ PairOf(data[2]) # PairOf(data[1])
  /\ Weight(data[1]) # Weight(data[3])
  /\ Cardinality(EdgesOf) = 2

\* C14 as stated: a record whose weight is outside [0, 1] leaves the nodes,
\* the edges and the weights of the graph as they were.
ValidWeight(w) == 0 <= w /\ w <= Milli
C14_InvalidWeightRejected ==
  [][(Len(data') = Len(data) + 1 /\ ~ValidWeight(Weight(data'[Len(data')])))
       => (adj' = adj /\ nodes' = nodes)]_vars

(* ------------------------------------------------ properties of seeding *)
\* the nodes of the graph that are not the anchor, in iteration order
NonAnchor == SelectSeq(nodes, LAMBDA n : n # Anchor)

\* C18: when seeding ends and when the first solver step begins, the pinned
\* node is at the centre in the force-atlas layout and in the spread-out layout,
\* whatever the random layout or the library computed for it.
AnchorAtCentre == Anchor \in DOMAIN pos /\ pos[Anchor] = Zero
C18_PinnedAtFixedCoordinate ==
  /\ phase = "Seeded" => AnchorAtCentre
  /\ (CanIterate /\ iter = 0) => AnchorAtCentre
  /\ phase \in {"Circular", "Locked"} => (AnchorAtCentre /\ Anchor \notin DOMAIN angle)
  /\ (phase \in {"Locked", "Refining"} /\ iter < ManualIterations) => AnchorAtCentre

C18_Witness ==
  /\ phase = "Locked"
  /\ iter = 0
  /\ Anchor \in NodeSet(nodes)
  /\ Len(nodes) >= 2
  /\ raw[Anchor] # Zero
  /\ pos[Anchor] = Zero

\* C19 as stated: the m nodes that are not the anchor are seeded at the angles
\* k * (2 pi / m), k = 0..m-1, in iteration order, no two at one point, and the
\* anchor is not on the circle; also for a graph without the anchor.
C19_EvenlySpacedCircle ==
  phase = "Circular" =>
    LET m == Len(NonAnchor)
    IN /\ DOMAIN angle = NodeSet(nodes) \ {Anchor}
       /\ \A k \in 1..m :
            /\ angle[NonAnchor[k]] = (k - 1) * (Turn \div m)
            /\ pos[NonAnchor[k]] = OnCircle((k - 1) * (Turn \div m))
       /\ \A j, k \in 1..m : j # k => pos[NonAnchor[j]] # pos[NonAnchor[k]]
       /\ pos[Anchor] = Zero

(* --------------------------------- properties of the non-radial layout *)
\* C20 as stated: two runs of the non-radial layout on the same graph end with
\* the same position for every node.
C20_SameGraphSamePositions ==
  (run = 2 /\ phase = "Drawn") => pos = first

(* ------------------------------------------- properties of the force model *)
\* the sum of the vectors f[k], k in S
RECURSIVE VSum(_, _)
VSum(f, S) ==
  IF S = {}
    THEN Zero
    ELSE LET k == CHOOSE x \in S : TRUE
         IN VAdd(f[k], VSum(f, S \ {k}))

Sign(a) == IF a > 0 THEN 1 ELSE IF a < 0 THEN 0 - 1 ELSE 0

\* v has the direction of delta: no component of v points against delta
SameDirection(v, delta) ==
  /\ Sign(v[1]) \in {0, Sign(delta[1])}
  /\ Sign(v[2]) \in {0, Sign(delta[2])}

\* two lengths in Milli that agree up to the rounding of the arithmetic
Close(a, b) == Abs(a - b) <= 3 + Max(a, b) \div 50

C23_AttractionOnEveryEdge ==
  (InSolver /\ iter >= 1) =>
    \A a \in Movable :
      disp[a] = VAdd(Repulsion(nodes, prev, a, 1), AttractionAll(edges, prev, a))

\* the edges neither endpoint of which is pinned
FreeEdges == {e \in edges : ~Pinned(e[1]) /\ ~Pinned(e[2])}

\* C23 amended: every edge between two non-pinned nodes pulls each endpoint
\* toward the other with magnitude attraction * distance, oppositely on the two
\* endpoints and not at all when they coincide; an edge to the anchor pulls
\* nothing, so the displacement holds the attraction of the other edges only.
C23_AttractionBetweenNonPinned ==
  (InSolver /\ iter >= 1) =>
    /\ \A e \in FreeEdges :
         LET delta == VSub(prev[e[1]], prev[e[2]])
             v == AttractionAlong(prev, e)
         IN /\ SameDirection(v, delta)
            /\ Close(Norm(v), (attraction * Norm(delta)) \div ForceUnit)
            /\ delta = Zero => v = Zero
    /\ \A a \in Movable :
         LET pull == [e \in FreeEdges |->
                        IF a = e[1]
                          THEN VNeg(AttractionAlong(prev, e))
                          ELSE IF a = e[2] THEN AttractionAlong(prev, e) ELSE Zero]
         IN disp[a] = VAdd(Repulsion(nodes, prev, a, 1), VSum(pull, FreeEdges))

C23_Witness ==
  /\ InSolver
  /\ iter >= 1
  /\ \E e \in edges : Pinned(e[1]) /\ e[2] \in Movable /\ prev[e[2]] # prev[e[1]]
  /\ \E e \in FreeEdges : Norm(AttractionAlong(prev, e)) >= min_distance

\* the orders in which the nodes of the graph can be visited
Orders(ns) ==
  {q \in [1..Len(ns) -> NodeSet(ns)] : \A i, j \in 1..Len(ns) : q[i] = q[j] => i = j}

RefinementIteration ==
  /\ iter' <= ManualIterations
  /\ Anchor \in DOMAIN pos' /\ pos'[Anchor] = Zero
  /\ maxDisp' = MaxMove(nodes, pos, pos')
  /\ phase' = IF maxDisp' < convergence_threshold
                THEN "Converged"
                ELSE IF iter' < ManualIterations THEN "Refining" ELSE "IterationsExhausted"

\* C25 as stated: the manual loop runs at least one and at most 100 iterations,
\* every iteration ends with the anchor at (0, 0), and the loop stops after the
\* first iteration that moved every node less than 0.01, the movement being
\* measured after the anchor was put back.
C25_RefinementLoop ==
  [][(phase \in {"Locked", "Refining"} /\ iter' = iter + 1) => RefinementIteration]_vars

\* the same for the graphs that have a node
C25_RefinementLoopOfNonEmptyGraph ==
  [][(phase \in {"Locked", "Refining"} /\ iter' = iter + 1 /\ nodes # <<>>)
       => RefinementIteration]_vars

(* ------------------------------------- properties of the edge-property loops *)
\* the width function of the loop that ran
WidthOf(e, w) ==
  IF phase = "EvidenceStyled" THEN EvidenceWidth(e, w) ELSE ForceAtlasWidth(e, w)

EdgesStyled == phase \in {"EvidenceStyled", "ForceAtlasStyled"}

\* C21 as stated: for every edge of the graph the score the scan selects is the
\* weight stored on the edge times 1000, so the width drawn is the width the
\* stored weight gives.
C21_ScanEqualsStoredWeight ==
  EdgesStyled =>
    /\ Len(edge_widths) = Len(edges)
    /\ \A i \in 1..Len(edges) :
         edge_widths[i] = WidthOf(edges[i], adj[edges[i][1]][edges[i][2]])

\* the first record of data that names the edge
FirstNaming(e) == data[SetMin({i \in 1..Len(data) : Names_edge(data[i], e)})]

\* C29: after the edge loop edge_colors and edge_widths have one entry per edge
\* of the graph, and entry i is the colour and the width of the i-th edge of
\* G.edges(), taken from the first record that names it.
C29_OneColourAndWidthPerEdge ==
  EdgesStyled =>
    /\ Len(edges) = Cardinality(EdgesOf)
    /\ {{edges[i][1], edges[i][2]} : i \in 1..Len(edges)} = EdgesOf
    /\ Len(edge_colors) = Len(edges)
    /\ Len(edge_widths) = Len(edges)
    /\ \A i \in 1..Len(edges) :
         /\ edge_colors[i] = get_interaction_type(FirstNaming(edges[i]))[2]
         /\ edge_widths[i] = WidthOf(edges[i], Weight(FirstNaming(edges[i])))

C29_Witness ==
  /\ EdgesStyled
  /\ Len(data) = 3
  /\ Len(edges) = 2
  /\ Names_edge(data[1], edges[1])
  /\ Names_edge(data[3], edges[1])
  /\ data[1].score # data[3].score
  /\ data[1].preferredName_A = data[3].preferredName_B
  /\ edge_colors[1] # edge_colors[2]
  /\ edge_widths[1] # edge_widths[2]

\* create_network as a function of the records and as the loop over them agree
NetworkIsFunctionOfData ==
  LET G == create_network(data)
  IN nodes = G.node /\ adj = G.adj

(* ------------------------------------------ properties of the hierarchical levels *)
\* the number of edges of a shortest path from INSR to the node in G
DistanceInG(node) ==
  shortest_path_length(BothWays(Range(edges)), {Anchor}, {}, node, 0)

\* C26 as stated: INSR has level 0 and every node connected to INSR in G has
\* its shortest-path distance from INSR in G as level.
C26_LevelIsDistance ==
  phase = "Levelled" =>
    /\ levels[Anchor] = 0
    /\ \A node \in Range(nodes) :
         DistanceInG(node) # NoPath => levels[node] = DistanceInG(node)

\* the nodes next to INSR, and INSR itself, do get their distance
LevelOfNeighboursIsDistance ==
  phase = "Levelled" =>
    /\ levels[Anchor] = 0
    /\ \A node \in Range(nodes) : DistanceInG(node) = 1 => levels[node] = 1

(* ------------------------------------------------ properties of the radial shells *)
\* the three outer shells one after the other
OuterShells == shells[2] \o shells[3] \o shells[4]

PlacesOf(node) ==
  {x \in {<<j, k>> : j \in 1..Len(functional_groups), k \in 1..Len(nodes)} :
     x[2] <= Len(functional_groups[x[1]][2]) /\ functional_groups[x[1]][2][x[2]] = node}

\* the group of a node that is in one group
GroupOf(node) == functional_groups[(CHOOSE x \in PlacesOf(node) : TRUE)[1]][1]

\* the records of data that name the node and have the type
RecordsNaming(node, t) ==
  {i \in 1..Len(data) :
     /\ node \in {data[i].preferredName_A, data[i].preferredName_B}
     /\ get_interaction_type(data[i])[1] = t}

\* the ends of records of data that name the node and have the type
EndsNaming(node, t) ==
  {x \in (1..Len(data)) \X {"A", "B"} :
     /\ node = (IF x[2] = "A" THEN data[x[1]].preferredName_A ELSE data[x[1]].preferredName_B)
     /\ get_interaction_type(data[x[1]])[1] = t}

InteractionTypes == {"physical", "functional", "text_mining", "other"}

GroupsMade == phase \in {"Grouped", "Positioned", "KeyError"}

\* every node is in exactly one group, INSR in 'central' and a node that no
\* record names in 'unknown'
OneGroupPerNode ==
  \A node \in Range(nodes) :
    /\ Cardinality(PlacesOf(node)) = 1
    /\ node = Anchor => GroupOf(node) = "central"
    /\ (node # Anchor /\ \A t \in InteractionTypes : RecordsNaming(node, t) = {})
         => GroupOf(node) = "unknown"

\* the group of the node is the first type encountered among those for which
\* count[t] is the largest
FirstOfTheMostCommon(node, count) ==
  /\ GroupOf(node) \in InteractionTypes
  /\ \A t \in InteractionTypes :
       /\ count[t] <= count[GroupOf(node)]
       /\ (count[t] = count[GroupOf(node)] /\ t # GroupOf(node))
            => SetMin(RecordsNaming(node, GroupOf(node))) < SetMin(RecordsNaming(node, t))

\* the nodes other than INSR that some record names
Typed == {node \in Range(nodes) \ {Anchor} : \E t \in InteractionTypes : RecordsNaming(node, t) # {}}

\* every node has a position once the layout was made
AllPositioned == phase \in {"Positioned", "KeyError"} => Range(nodes) \subseteq DOMAIN pos

\* C30 as stated: the group of a node that records name is a type with the
\* largest number of records naming the node, the first encountered on a tie.
C30_MostCommonAmongRecords ==
  GroupsMade =>
    /\ OneGroupPerNode
    /\ \A node \in Typed :
         FirstOfTheMostCommon(node, [t \in InteractionTypes |-> Cardinality(RecordsNaming(node, t))])
    /\ AllPositioned

\* C30 amended: every node is in exactly one group: INSR in 'central', a node
\* no record names in 'unknown', any other node in the type that occurs most
\* often for it, a record that names the node at both ends counting twice, and
\* the first type encountered on a tie; every node has a position after the layout.
C30_MostCommonAmongEnds ==
  GroupsMade =>
    /\ OneGroupPerNode
    /\ \A node \in Typed :
         FirstOfTheMostCommon(node, [t \in InteractionTypes |-> Cardinality(EndsNaming(node, t))])
    /\ AllPositioned

C30_Witness ==
  /\ phase = "Positioned"
  /\ Len(data) = 2
  /\ Len(nodes) = 3
  /\ \E j \in 1..Len(functional_groups) : functional_groups[j][1] = "unknown"
  /\ \E node \in Typed :
       /\ Cardinality(RecordsNaming(node, "physical")) = 1
       /\ Cardinality(RecordsNaming(node, "other")) = 1
       /\ SetMin(RecordsNaming(node, "other")) = 1
       /\ GroupOf(node) = "other"

(* -------------------------------------------- properties of coincident nodes *)
\* the neighbours of node a among the edges E, the anchor and node b left out
OtherNeighbours(E, a, b) ==
  ({e[2] : e \in {x \in E : x[1] = a}} \cup {e[1] : e \in {x \in E : x[2] = a}})
    \ {Anchor, a, b}

\* the pairs of distinct non-pinned nodes that the last iteration found at the
\* same position, with the same neighbours E gives them
Twins(E) ==
  {x \in Movable \X Movable :
     /\ x[1] # x[2]
     /\ prev[x[1]] = prev[x[2]]
     /\ OtherNeighbours(E, x[1], x[2]) = OtherNeighbours(E, x[2], x[1])}

InRounding == phase \in {"Rounding", "RoundedDone"} /\ iter >= 1

\* two non-pinned nodes at the same position push and pull each other by zero
NoForceBetweenCoincident ==
  InRounding =>
    \A a, b \in Movable :
      (a # b /\ prev[a] = prev[b]) =>
        /\ RepulsionFrom(prev, a, b) = Zero
        /\ AttractionAlong(prev, <<a, b>>) = Zero

TwinsInTheSameOrderStayTogether ==
  (InRounding /\ edges[5] = <<"B", "C">>) =>
    \A x \in Twins(Range(edges)) : disp[x[1]] = disp[x[2]] /\ pos[x[1]] = pos[x[2]]

\* with sums that do not round, the nodes stay together whatever the order
TwinsStayTogetherWithoutRounding ==
  (InSolver /\ iter >= 1) =>
    \A x \in Twins(edges) : disp[x[1]] = disp[x[2]] /\ pos[x[1]] = pos[x[2]]

====
